---------------------------- MODULE Spec2Model ----------------------------
(***************************************************************************)
(* Model of src/forminator_insert_generator.py: the PHP-serialization      *)
(* encoder, the SQL escaping and statement rendering, the per-entry row    *)
(* builder and the batch generator of ForminatorInsertGenerator.           *)
(*                                                                         *)
(* A Python str is a sequence of characters.  An ASCII character is the    *)
(* one-character string of itself; the non-ASCII characters the program    *)
(* and its inputs use are named: "E_ACUTE" (U+00E9), "E_CIRC" (U+00EA),    *)
(* "EURO" (U+20AC), "EMOJI" (U+1F600); "BACKTICK" is the ASCII grave       *)
(* accent and "TAB", "LF", "CR" the ASCII control characters.              *)
(***************************************************************************)
EXTENDS Integers, Sequences, FiniteSets, TLC

VARIABLES pc, op, args, clock, result

vars == <<pc, op, args, clock, result>>

-----------------------------------------------------------------------------
(* Python values *)

\* Optional[str]: None, or a str
None == [some |-> FALSE, v |-> <<>>]

Some(t) == [some |-> TRUE, v |-> t]

\* truth value of an Optional[str] in an `if`: None and '' are false
Truthy(o) == o.some /\ o.v # <<>>

\* a call that returned val
Ok(val) == [ok |-> TRUE, err |-> "", val |-> val]

\* a call that raised the exception err
Raise(err) == [ok |-> FALSE, err |-> err, val |-> <<>>]

\* the result variable before the call has run
Pending == [ok |-> FALSE, err |-> "pending", val |-> <<>>]

DigitChars == <<"0", "1", "2", "3", "4", "5", "6", "7", "8", "9">>

IsDigit(c) == \E i \in 1..10 : DigitChars[i] = c

DigitVal(c) == (CHOOSE i \in 1..10 : DigitChars[i] = c) - 1

\* str(n) for n >= 0
RECURSIVE NatStr(_)
NatStr(n) ==
    IF n < 10 THEN <<DigitChars[n + 1]>>
    ELSE NatStr(n \div 10) \o <<DigitChars[(n % 10) + 1]>>

\* str(n) of a Python int
IntStr(n) == IF n < 0 THEN <<"-">> \o NatStr(-n) ELSE NatStr(n)

\* n in at least two digits
Pad2(n) == IF n < 10 THEN <<"0">> \o NatStr(n) ELSE NatStr(n)

\* int(ds) of a run of decimal digits (0 for the empty run)
RECURSIVE DigitsVal(_)
DigitsVal(ds) ==
    IF ds = <<>> THEN 0
    ELSE 10 * DigitsVal(SubSeq(ds, 1, Len(ds) - 1)) + DigitVal(ds[Len(ds)])

AllDigits(ds) == \A i \in 1..Len(ds) : IsDigit(ds[i])

\* the tail of s from position i on
From(s, i) == SubSeq(s, i, Len(s))

StartsWith(s, p) == Len(s) >= Len(p) /\ SubSeq(s, 1, Len(p)) = p

\* sep.join(parts)
RECURSIVE Join(_, _)
Join(sep, parts) ==
    IF parts = <<>> THEN <<>>
    ELSE IF Len(parts) = 1 THEN parts[1]
    ELSE parts[1] \o sep \o Join(sep, Tail(parts))

\* s.replace(old, new) for a one-character old: every occurrence, left to right
\* (computed by halves, one character at a time)
RECURSIVE Replace(_, _, _)
Replace(s, old, new) ==
    IF s = <<>> THEN <<>>
    ELSE IF Len(s) = 1 THEN (IF s[1] = old THEN new ELSE s)
    ELSE LET h == Len(s) \div 2
         IN  Replace(SubSeq(s, 1, h), old, new) \o Replace(SubSeq(s, h + 1, Len(s)), old, new)

\* number of bytes of the UTF-8 encoding of one character
Utf8Width(c) ==
    CASE c \in {"E_ACUTE", "E_CIRC"} -> 2
      [] c = "EURO" -> 3
      [] c = "EMOJI" -> 4
      [] OTHER -> 1

\* len(value.encode('utf-8')): the sum of the characters' widths (computed by halves)
RECURSIVE Utf8Len(_)
Utf8Len(value) ==
    IF value = <<>> THEN 0
    ELSE IF Len(value) = 1 THEN Utf8Width(value[1])
    ELSE LET h == Len(value) \div 2
         IN  Utf8Len(SubSeq(value, 1, h)) + Utf8Len(SubSeq(value, h + 1, Len(value)))

-----------------------------------------------------------------------------
(* float(text), str(float), int(float).  A float is [kind, neg, ip, fd]:   *)
(* kind "fin", "inf" or "nan", the sign, the integer part and the digits   *)
(* of the fraction without trailing zeros.  Amount texts are written       *)
(* without exponent and without digit-group underscores and have at most   *)
(* 15 significant digits, so the decimal digits are the float's shortest   *)
(* representation and its integer part is below 10^16.                     *)

Float(kind, neg, ip, fd) == [kind |-> kind, neg |-> neg, ip |-> ip, fd |-> fd]

Whitespace == {" ", "TAB", "LF", "CR"}

RECURSIVE LStrip(_)
LStrip(s) == IF s # <<>> /\ Head(s) \in Whitespace THEN LStrip(Tail(s)) ELSE s

RECURSIVE RStrip(_)
RStrip(s) ==
    IF s # <<>> /\ s[Len(s)] \in Whitespace THEN RStrip(SubSeq(s, 1, Len(s) - 1)) ELSE s

Lower(c) ==
    CASE c = "I" -> "i" [] c = "N" -> "n" [] c = "F" -> "f"
      [] c = "T" -> "t" [] c = "Y" -> "y" [] c = "A" -> "a"
      [] OTHER -> c

LowerText(s) == [i \in 1..Len(s) |-> Lower(s[i])]

RECURSIVE StripTrailingZeros(_)
StripTrailingZeros(ds) ==
    IF ds # <<>> /\ ds[Len(ds)] = "0" THEN StripTrailingZeros(SubSeq(ds, 1, Len(ds) - 1))
    ELSE ds

\* position of the first "." of s, or Len(s) + 1
RECURSIVE DotPos(_, _)
DotPos(s, i) == IF i > Len(s) \/ s[i] = "." THEN i ELSE DotPos(s, i + 1)

\* the unsigned body of the text parsed as a decimal with its point at position dot
ParseDecimal(body, neg, dot) ==
    IF /\ AllDigits(SubSeq(body, 1, dot - 1))
       /\ AllDigits(SubSeq(body, dot + 1, Len(body)))
       /\ Len(body) > (IF dot <= Len(body) THEN 1 ELSE 0)
    THEN Ok(Float("fin", neg, DigitsVal(SubSeq(body, 1, dot - 1)),
                  StripTrailingZeros(SubSeq(body, dot + 1, Len(body)))))
    ELSE Raise("ValueError")

\* the text after its sign: inf, infinity, nan in any case, or a decimal
ParseUnsigned(body, neg) ==
    IF LowerText(body) \in {<<"i", "n", "f">>, <<"i", "n", "f", "i", "n", "i", "t", "y">>} THEN Ok(Float("inf", neg, 0, <<>>))
    ELSE IF LowerText(body) = <<"n", "a", "n">> THEN Ok(Float("nan", neg, 0, <<>>))
    ELSE ParseDecimal(body, neg, DotPos(body, 1))

\* the stripped text: an optional sign, then the number
ParseSigned(s) ==
    IF s # <<>> /\ Head(s) \in {"+", "-"} THEN ParseUnsigned(Tail(s), Head(s) = "-")
    ELSE ParseUnsigned(s, FALSE)

\* float(text): Ok(float) or ValueError
ParseFloat(text) == ParseSigned(RStrip(LStrip(text)))

RECURSIVE LeadingZeros(_)
LeadingZeros(ds) == IF ds # <<>> /\ Head(ds) = "0" THEN 1 + LeadingZeros(Tail(ds)) ELSE 0

\* d[.ddd]e-XX: the significant digits sig of a fraction with lz leading zeros
ExponentStr(sig, lz) ==
    <<Head(sig)>> \o (IF Len(sig) > 1 THEN <<".">> \o Tail(sig) ELSE <<>>)
    \o <<"e", "-">> \o Pad2(lz + 1)

\* str(f) of a finite float without its sign: repr's shortest form, in exponent
\* notation below 1e-4
FiniteStr(ip, fd, lz) ==
    IF ip = 0 /\ fd # <<>> /\ lz >= 4 THEN ExponentStr(From(fd, lz + 1), lz)
    ELSE NatStr(ip) \o <<".">> \o (IF fd = <<>> THEN <<"0">> ELSE fd)

\* str(f) of a float
FloatStr(f) ==
    IF f.kind = "nan" THEN <<"n", "a", "n">>
    ELSE (IF f.neg THEN <<"-">> ELSE <<>>)
         \o (IF f.kind = "inf" THEN <<"i", "n", "f">> ELSE FiniteStr(f.ip, f.fd, LeadingZeros(f.fd)))

\* int(f) of a float: truncation toward zero; inf and nan raise
FloatInt(f) ==
    IF f.kind = "inf" THEN Raise("OverflowError")
    ELSE IF f.kind = "nan" THEN Raise("ValueError")
    ELSE Ok(IF f.neg THEN -f.ip ELSE f.ip)

\* the amount argument of php_serialize_calculation: a Python int or float
IntNum(i) == [t |-> "int", i |-> i, f |-> Float("fin", FALSE, 0, <<>>)]

FloatNum(f) == [t |-> "float", i |-> 0, f |-> f]

\* int(amount)
NumInt(amount) == IF amount.t = "int" THEN Ok(amount.i) ELSE FloatInt(amount.f)

\* f"{amount}"
NumStr(amount) == IF amount.t = "int" THEN IntStr(amount.i) ELSE FloatStr(amount.f)

-----------------------------------------------------------------------------
(* datetime: [Y, m, d, H, M, S] *)

\* strftime('%Y-%m-%d %H:%M:%S') of a clock reading
FormatTimestamp(t) ==
    NatStr(t.Y) \o <<"-">> \o Pad2(t.m) \o <<"-">> \o Pad2(t.d) \o <<" ">>
    \o Pad2(t.H) \o <<":">> \o Pad2(t.M) \o <<":">> \o Pad2(t.S)

\* strftime('%d/%m/%Y')
FormatDayMonthYear(t) == Pad2(t.d) \o <<"/">> \o Pad2(t.m) \o <<"/">> \o NatStr(t.Y)

IsLeap(y) == (y % 4 = 0 /\ y % 100 # 0) \/ y % 400 = 0

DaysInMonth(y, m) ==
    IF m = 2 THEN (IF IsLeap(y) THEN 29 ELSE 28)
    ELSE IF m \in {4, 6, 9, 11} THEN 30 ELSE 31

\* the character of s at position i, "" past the end
At(s, i) == IF i >= 1 /\ i <= Len(s) THEN s[i] ELSE ""

In(c, lo, hi) == IsDigit(c) /\ DigitVal(c) >= lo /\ DigitVal(c) <= hi

\* How many characters of s at position i each directive of the format takes
\* (0: no match); a directive's alternatives are tried in the order of its pattern.
\* %m: 1[0-2] | 0[1-9] | [1-9]
MonthWidth(s, i) ==
    IF At(s, i) = "1" /\ In(At(s, i + 1), 0, 2) THEN 2
    ELSE IF At(s, i) = "0" /\ In(At(s, i + 1), 1, 9) THEN 2
    ELSE IF In(At(s, i), 1, 9) THEN 1 ELSE 0

\* %d: 3[01] | [12]\d | 0[1-9] | [1-9] | ' '[1-9]
DayWidth(s, i) ==
    IF At(s, i) = "3" /\ In(At(s, i + 1), 0, 1) THEN 2
    ELSE IF In(At(s, i), 1, 2) /\ IsDigit(At(s, i + 1)) THEN 2
    ELSE IF At(s, i) = "0" /\ In(At(s, i + 1), 1, 9) THEN 2
    ELSE IF In(At(s, i), 1, 9) THEN 1
    ELSE IF At(s, i) = " " /\ In(At(s, i + 1), 1, 9) THEN 2 ELSE 0

\* %H: 2[0-3] | [0-1]\d | \d
HourWidth(s, i) ==
    IF At(s, i) = "2" /\ In(At(s, i + 1), 0, 3) THEN 2
    ELSE IF In(At(s, i), 0, 1) /\ IsDigit(At(s, i + 1)) THEN 2
    ELSE IF IsDigit(At(s, i)) THEN 1 ELSE 0

\* %M: [0-5]\d | \d
MinuteWidth(s, i) ==
    IF In(At(s, i), 0, 5) /\ IsDigit(At(s, i + 1)) THEN 2
    ELSE IF IsDigit(At(s, i)) THEN 1 ELSE 0

\* %S: 6[0-1] | [0-5]\d | \d
SecondWidth(s, i) ==
    IF At(s, i) = "6" /\ In(At(s, i + 1), 0, 1) THEN 2
    ELSE MinuteWidth(s, i)

\* the blank of the format: \s+
RECURSIVE BlankWidth(_, _)
BlankWidth(s, i) == IF At(s, i) \in Whitespace THEN 1 + BlankWidth(s, i + 1) ELSE 0

\* the number a matched field holds (the day's pattern may start with a blank)
FieldVal(s, i, w) == DigitsVal(SelectSeq(SubSeq(s, i, i + w - 1), IsDigit))

\* %Y: \d\d\d\d
YearWidth(s, i) == IF Len(s) >= i + 3 /\ AllDigits(SubSeq(s, i, i + 3)) THEN 4 ELSE 0

\* The state of the match of the format against s: whether it still matches, the
\* position reached and the numbers of the fields read so far.
Matched(pos, fields) == [ok |-> TRUE, pos |-> pos, fields |-> fields]

NoMatch == [ok |-> FALSE, pos |-> 0, fields |-> <<>>]

\* a directive that takes w characters at the position reached (0: no match)
TakeField(s, st, w) ==
    IF st.ok /\ w > 0 THEN Matched(st.pos + w, Append(st.fields, FieldVal(s, st.pos, w)))
    ELSE NoMatch

\* a literal character of the format
TakeChar(s, st, c) ==
    IF st.ok /\ At(s, st.pos) = c THEN Matched(st.pos + 1, st.fields) ELSE NoMatch

TakeBlank(s, st) ==
    IF st.ok /\ BlankWidth(s, st.pos) > 0 THEN Matched(st.pos + BlankWidth(s, st.pos), st.fields)
    ELSE NoMatch

TakeYear(s, st) == TakeField(s, st, YearWidth(s, st.pos))

TakeMonth(s, st) == TakeField(s, st, MonthWidth(s, st.pos))

TakeDay(s, st) == TakeField(s, st, DayWidth(s, st.pos))

TakeHour(s, st) == TakeField(s, st, HourWidth(s, st.pos))

TakeMinute(s, st) == TakeField(s, st, MinuteWidth(s, st.pos))

TakeSecond(s, st) == TakeField(s, st, SecondWidth(s, st.pos))

\* the match of '%Y-%m-%d %H:%M:%S' from the start of s, directive by directive
AfterYear(s) == TakeChar(s, TakeYear(s, Matched(1, <<>>)), "-")

AfterMonth(s) == TakeChar(s, TakeMonth(s, AfterYear(s)), "-")

AfterDay(s) == TakeBlank(s, TakeDay(s, AfterMonth(s)))

AfterHour(s) == TakeChar(s, TakeHour(s, AfterDay(s)), ":")

AfterMinute(s) == TakeChar(s, TakeMinute(s, AfterHour(s)), ":")

MatchFormat(s) == TakeSecond(s, AfterMinute(s))

\* datetime(Y, m, d, H, M, S) of the fields: Ok(datetime) or ValueError
MakeDatetime(f) ==
    IF f[1] < 1 \/ f[3] > DaysInMonth(f[1], f[2]) \/ f[6] > 59 THEN Raise("ValueError")
    ELSE Ok([Y |-> f[1], m |-> f[2], d |-> f[3], H |-> f[4], M |-> f[5], S |-> f[6]])

\* the outcome of the match st of the format against s
FromMatch(s, st) ==
    IF ~st.ok THEN Raise("ValueError")                      \* does not match format
    ELSE IF st.pos # Len(s) + 1 THEN Raise("ValueError")    \* unconverted data remains
    ELSE MakeDatetime(st.fields)

\* datetime.strptime(s, '%Y-%m-%d %H:%M:%S'): Ok(datetime) or ValueError
strptime(s) == FromMatch(s, MatchFormat(s))

-----------------------------------------------------------------------------
(* Composite value encoder *)

php_serialize_string_charlen(value) ==
    <<"s", ":">> \o NatStr(Len(value)) \o <<":", "\"">> \o value \o <<"\"">>

php_serialize_string(value) ==
    LET byte_length == Utf8Len(value)
    IN  <<"s", ":">> \o NatStr(byte_length) \o <<":", "\"">> \o value \o <<"\"">>

php_serialize_name(first_name, last_name) ==
    LET first_serialized == php_serialize_string(first_name)
        last_serialized == php_serialize_string(last_name)
    IN  <<"a", ":", "2", ":", "{", "s", ":", "1", "0", ":", "\"", "f", "i", "r", "s", "t", "-", "n", "a", "m", "e", "\"", ";">> \o first_serialized
        \o <<";", "s", ":", "9", ":", "\"", "l", "a", "s", "t", "-", "n", "a", "m", "e", "\"", ";">> \o last_serialized \o <<";", "}">>

\* the encoding, given truncated = int(amount)
CalculationText(amount, currency_symbol, truncated) ==
    IF ~truncated.ok THEN Raise(truncated.err)
    ELSE Ok(<<"a", ":", "2", ":", "{", "s", ":", "6", ":", "\"", "r", "e", "s", "u", "l", "t", "\"", ";", "d", ":">> \o NumStr(amount)
            \o <<";", "s", ":", "1", "7", ":", "\"", "f", "o", "r", "m", "a", "t", "t", "i", "n", "g", "_", "r", "e", "s", "u", "l", "t", "\"", ";">>
            \o php_serialize_string(currency_symbol \o <<" ">> \o IntStr(truncated.val))
            \o <<";", "}">>)

\* Ok(text), or the exception int(amount) raises
php_serialize_calculation(amount, currency_symbol) ==
    CalculationText(amount, currency_symbol, NumInt(amount))

\* default arguments
DefaultCurrencySymbol == <<"EURO">>

DefaultCurrency == <<"E", "U", "R">>

DefaultMode == <<"l", "i", "v", "e">>

DefaultProductName == <<"P", "l", "a", "n", " ", "1">>

DefaultPaymentType == <<"O", "n", "e", " ", "T", "i", "m", "e">>

DefaultStatus == <<"C", "O", "M", "P", "L", "E", "T", "E", "D">>

php_serialize_stripe_no_quantity(transaction_id, amount, currency, mode, product_name, payment_type, status) ==
    LET transaction_link == <<"h", "t", "t", "p", "s", ":", "/", "/", "d", "a", "s", "h", "b", "o", "a", "r", "d", ".", "s", "t", "r", "i", "p", "e", ".", "c", "o", "m", "/", "p", "a", "y", "m", "e", "n", "t", "s", "/">> \o transaction_id
        parts == <<
            <<"s", ":", "4", ":", "\"", "m", "o", "d", "e", "\"", ";">> \o php_serialize_string(mode),
            <<"s", ":", "1", "2", ":", "\"", "p", "r", "o", "d", "u", "c", "t", "_", "n", "a", "m", "e", "\"", ";">> \o php_serialize_string(product_name),
            <<"s", ":", "1", "2", ":", "\"", "p", "a", "y", "m", "e", "n", "t", "_", "t", "y", "p", "e", "\"", ";">> \o php_serialize_string(payment_type),
            <<"s", ":", "6", ":", "\"", "a", "m", "o", "u", "n", "t", "\"", ";">> \o php_serialize_string(amount),
            <<"s", ":", "8", ":", "\"", "c", "u", "r", "r", "e", "n", "c", "y", "\"", ";">> \o php_serialize_string(currency),
            <<"s", ":", "1", "4", ":", "\"", "t", "r", "a", "n", "s", "a", "c", "t", "i", "o", "n", "_", "i", "d", "\"", ";">> \o php_serialize_string(transaction_id),
            <<"s", ":", "1", "6", ":", "\"", "t", "r", "a", "n", "s", "a", "c", "t", "i", "o", "n", "_", "l", "i", "n", "k", "\"", ";">> \o php_serialize_string(transaction_link),
            <<"s", ":", "6", ":", "\"", "s", "t", "a", "t", "u", "s", "\"", ";">> \o php_serialize_string(status) >>
    IN  <<"a", ":", "9", ":", "{">> \o Join(<<";">>, parts) \o <<";", "}">>

php_serialize_stripe(transaction_id, amount, currency, mode, product_name, payment_type, status) ==
    LET transaction_link == <<"h", "t", "t", "p", "s", ":", "/", "/", "d", "a", "s", "h", "b", "o", "a", "r", "d", ".", "s", "t", "r", "i", "p", "e", ".", "c", "o", "m", "/", "p", "a", "y", "m", "e", "n", "t", "s", "/">> \o transaction_id
        parts == <<
            <<"s", ":", "4", ":", "\"", "m", "o", "d", "e", "\"", ";">> \o php_serialize_string(mode),
            <<"s", ":", "1", "2", ":", "\"", "p", "r", "o", "d", "u", "c", "t", "_", "n", "a", "m", "e", "\"", ";">> \o php_serialize_string(product_name),
            <<"s", ":", "1", "2", ":", "\"", "p", "a", "y", "m", "e", "n", "t", "_", "t", "y", "p", "e", "\"", ";">> \o php_serialize_string(payment_type),
            <<"s", ":", "6", ":", "\"", "a", "m", "o", "u", "n", "t", "\"", ";">> \o php_serialize_string(amount),
            <<"s", ":", "8", ":", "\"", "q", "u", "a", "n", "t", "i", "t", "y", "\"", ";">> \o php_serialize_string(<<"1">>),
            <<"s", ":", "8", ":", "\"", "c", "u", "r", "r", "e", "n", "c", "y", "\"", ";">> \o php_serialize_string(currency),
            <<"s", ":", "1", "4", ":", "\"", "t", "r", "a", "n", "s", "a", "c", "t", "i", "o", "n", "_", "i", "d", "\"", ";">> \o php_serialize_string(transaction_id),
            <<"s", ":", "1", "6", ":", "\"", "t", "r", "a", "n", "s", "a", "c", "t", "i", "o", "n", "_", "l", "i", "n", "k", "\"", ";">> \o php_serialize_string(transaction_link),
            <<"s", ":", "6", ":", "\"", "s", "t", "a", "t", "u", "s", "\"", ";">> \o php_serialize_string(status) >>
    IN  <<"a", ":", "9", ":", "{">> \o Join(<<";">>, parts) \o <<";", "}">>

-----------------------------------------------------------------------------
(* Statement rendering *)

escape_sql_string_quote_first(value) ==
    Replace(Replace(value, "'", <<"\\", "'">>), "\\", <<"\\", "\\">>)

escape_sql_string(value) ==
    Replace(Replace(value, "\\", <<"\\", "\\">>), "'", <<"\\", "'">>)

TABLE_NAME == <<"w", "p", "_", "f", "r", "m", "t", "_", "f", "o", "r", "m", "_", "e", "n", "t", "r", "y", "_", "m", "e", "t", "a">>

\* the statement text around the six interpolated values
QueryText(meta_id, entry_id, meta_key, escaped_value, date_created) ==
    <<"I", "N", "S", "E", "R", "T", " ", "I", "N", "T", "O", " ", "BACKTICK">> \o TABLE_NAME \o <<"BACKTICK", " ">>
    \o <<"(", "BACKTICK", "m", "e", "t", "a", "_", "i", "d", "BACKTICK", ",", " ", "BACKTICK", "e", "n", "t", "r", "y", "_", "i", "d", "BACKTICK", ",", " ", "BACKTICK", "m", "e", "t", "a", "_", "k", "e", "y", "BACKTICK", ",", " ", "BACKTICK", "m", "e", "t", "a", "_", "v", "a", "l", "u", "e", "BACKTICK", ",", " ", "BACKTICK", "d", "a", "t", "e", "_", "c", "r", "e", "a", "t", "e", "d", "BACKTICK", ",", " ", "BACKTICK", "d", "a", "t", "e", "_", "u", "p", "d", "a", "t", "e", "d", "BACKTICK", ")", " ">>
    \o <<"V", "A", "L", "U", "E", "S", " ">>
    \o <<"(">> \o IntStr(meta_id) \o <<",", " ">> \o IntStr(entry_id) \o <<",", " ", "'">> \o meta_key
    \o <<"'", ",", " ", "'">> \o escaped_value \o <<"'", ",", " ", "'">> \o date_created
    \o <<"'", ",", " ", "'", "0", "0", "0", "0", "-", "0", "0", "-", "0", "0", " ", "0", "0", ":", "0", "0", ":", "0", "0", "'", ")", ";">>

\* A statement: its text, and beside it the values interpolated into the text.
Statement(meta_id, entry_id, meta_key, escaped_value, date_created) ==
    [text |-> QueryText(meta_id, entry_id, meta_key, escaped_value, date_created),
     meta_id |-> meta_id, entry_id |-> entry_id, meta_key |-> meta_key,
     meta_value |-> escaped_value, date_created |-> date_created]

\* date_created is an Optional[str]; now is what datetime.now() returns if read
generate_insert_query(meta_id, entry_id, meta_key, meta_value, date_created, now) ==
    LET created == IF ~date_created.some THEN FormatTimestamp(now) ELSE date_created.v
        escaped_value == escape_sql_string(meta_value)
    IN  Statement(meta_id, entry_id, meta_key, escaped_value, created)

-----------------------------------------------------------------------------
(* Entry row builder.  An entry is the record of generate_entry_inserts'   *)
(* arguments; t_shirt_size and date_created are Optional[str].             *)

\* gender_map.get(gender, gender)
GenderValue(gender) ==
    IF gender = <<"M">> THEN <<"M", "a", "s", "c", "u", "l", "i", "n", " ", "/", " ", "M", "a", "l", "e">>
    ELSE IF gender = <<"F">> THEN <<"F", "E_ACUTE", "m", "i", "n", "i", "n", " ", "/", " ", "F", "e", "m", "a", "l", "e">>
    ELSE gender

AfterEmit_no_increment(current_meta_id) == current_meta_id

\* current_meta_id += 1, after each appended statement
AfterEmit(current_meta_id) == current_meta_id + 1

IncludeSize_without_opt_in(t_shirt, t_shirt_size) == Truthy(t_shirt_size)

\* if t_shirt and t_shirt_size
IncludeSize(t_shirt, t_shirt_size) == t_shirt /\ Truthy(t_shirt_size)

CheckboxValue_no_space(party, t_shirt) ==
    Join(<<",">>, (IF party THEN <<<<"F", "E_CIRC", "t", "e", " ", "F", "i", "n", "a", "l", "e", " ", "/", " ", "F", "i", "n", "a", "l", " ", "P", "a", "r", "t", "y">>>> ELSE <<>>)
                  \o (IF t_shirt THEN <<<<"T", "-", "S", "h", "i", "r", "t">>>> ELSE <<>>))

\* checkbox_values and their join
CheckboxValue(party, t_shirt) ==
    LET v0 == <<>>
        v1 == IF party THEN Append(v0, <<"F", "E_CIRC", "t", "e", " ", "F", "i", "n", "a", "l", "e", " ", "/", " ", "F", "i", "n", "a", "l", " ", "P", "a", "r", "t", "y">>) ELSE v0
        checkbox_values == IF t_shirt THEN Append(v1, <<"T", "-", "S", "h", "i", "r", "t">>) ELSE v1
    IN  Join(<<",", " ">>, checkbox_values)

AmountFloat_lenient(stripe_amount) ==
    IF ParseFloat(stripe_amount).ok THEN ParseFloat(stripe_amount)
    ELSE Ok(Float("fin", FALSE, 0, <<>>))

\* float(stripe_amount)
AmountFloat(stripe_amount) == ParseFloat(stripe_amount)

\* One of the sixteen numbered blocks of generate_entry_inserts: the condition of
\* its `if` (TRUE for a block that always runs) and the key and value it passes
\* to generate_insert_query.
Block(condition, meta_key, meta_value) ==
    [condition |-> condition, meta_key |-> meta_key, meta_value |-> meta_value]

\* blocks 1 to 16, in program order
Blocks(e, submission_date, calculation_value, calculation2_value, name_value, gender_value, stripe_value) ==
    << Block(TRUE, <<"h", "i", "d", "d", "e", "n", "-", "1">>, IntStr(e.entry_id)),
       Block(TRUE, <<"h", "i", "d", "d", "e", "n", "-", "2">>, submission_date),
       Block(TRUE, <<"c", "a", "l", "c", "u", "l", "a", "t", "i", "o", "n", "-", "1">>, calculation_value),
       Block(TRUE, <<"c", "a", "l", "c", "u", "l", "a", "t", "i", "o", "n", "-", "2">>, calculation2_value),
       Block(TRUE, <<"n", "a", "m", "e", "-", "1">>, name_value),
       Block(TRUE, <<"e", "m", "a", "i", "l", "-", "1">>, e.email),
       Block(TRUE, <<"p", "h", "o", "n", "e", "-", "1">>, e.phone),
       Block(TRUE, <<"s", "e", "l", "e", "c", "t", "-", "1">>, e.grade),
       Block(TRUE, <<"t", "e", "x", "t", "-", "3">>, e.dojo_name),
       Block(TRUE, <<"d", "a", "t", "e", "-", "1">>, e.birth_date),
       Block(e.t_shirt, <<"s", "e", "l", "e", "c", "t", "-", "2">>, gender_value),
       Block(IncludeSize(e.t_shirt, e.t_shirt_size), <<"s", "e", "l", "e", "c", "t", "-", "3">>, e.t_shirt_size.v),
       Block(e.t_shirt, <<"s", "e", "l", "e", "c", "t", "-", "4">>, <<"1">>),
       Block(TRUE, <<"s", "e", "l", "e", "c", "t", "-", "5">>, <<"1">>),
       Block(e.party \/ e.t_shirt, <<"c", "h", "e", "c", "k", "b", "o", "x", "-", "2">>, CheckboxValue(e.party, e.t_shirt)),
       Block(TRUE, <<"s", "t", "r", "i", "p", "e", "-", "o", "c", "s", "-", "1">>, stripe_value) >>

\* The blocks from block i on, run in order: a block whose condition holds appends
\* its statement with the current row id and increments the id; a block whose
\* condition fails does nothing.
RECURSIVE RunBlocks(_, _, _, _, _, _, _)
RunBlocks(blocks, i, queries, current_meta_id, entry_id, date_created, now) ==
    IF i > Len(blocks) THEN queries
    ELSE IF blocks[i].condition
         THEN RunBlocks(blocks, i + 1,
                        Append(queries,
                               generate_insert_query(current_meta_id, entry_id,
                                                     blocks[i].meta_key, blocks[i].meta_value,
                                                     Some(date_created), now)),
                        AfterEmit(current_meta_id), entry_id, date_created, now)
         ELSE RunBlocks(blocks, i + 1, queries, current_meta_id, entry_id, date_created, now)

\* date_created after `if date_created is None`
CreatedOrNow(date_created, now) ==
    IF ~date_created.some THEN FormatTimestamp(now) ELSE date_created.v

\* dt_obj.strftime('%d/%m/%Y') of the parsed date_created
FormatParsed(dt_obj) ==
    IF dt_obj.ok THEN Ok(FormatDayMonthYear(dt_obj.val)) ELSE Raise(dt_obj.err)

\* submission_date: Ok(text), or the exception strptime raises
SubmissionDate(date_created, now) ==
    IF date_created # <<>> THEN FormatParsed(strptime(date_created))
    ELSE Ok(FormatDayMonthYear(now))

\* php_serialize_calculation(float(stripe_amount)), given amount = float(stripe_amount)
CalculationOfFloat(amount) ==
    IF ~amount.ok THEN Raise(amount.err)
    ELSE php_serialize_calculation(FloatNum(amount.val), DefaultCurrencySymbol)

\* the statements, given the submission date and the second calculation
EntryStatements(e, now, date_created, submission_date, calculation2_value) ==
    IF ~submission_date.ok THEN Raise(submission_date.err)
    ELSE IF ~calculation2_value.ok THEN Raise(calculation2_value.err)
    ELSE Ok(RunBlocks(
            Blocks(e, submission_date.val,
                   php_serialize_calculation(IntNum(IF e.t_shirt THEN 20 ELSE 0),
                                             DefaultCurrencySymbol).val,
                   calculation2_value.val,
                   php_serialize_name(e.first_name, e.last_name),
                   GenderValue(e.gender),
                   php_serialize_stripe(e.stripe_transaction_id, e.stripe_amount, e.currency,
                                        DefaultMode, DefaultProductName, DefaultPaymentType,
                                        DefaultStatus)),
            1, <<>>, e.meta_id_start, e.entry_id, date_created, now))

\* the call once date_created is a str
EntryWithDate(e, now, date_created) ==
    EntryStatements(e, now, date_created, SubmissionDate(date_created, now),
                    CalculationOfFloat(AmountFloat(e.stripe_amount)))

\* Ok(list of statements), or the exception the call raises
generate_entry_inserts(e, now) == EntryWithDate(e, now, CreatedOrNow(e.date_created, now))

-----------------------------------------------------------------------------
(* Batch generator.  A batch entry is a dict: the record of an entry's     *)
(* fields, where date_created and currency are None when the key is absent. *)

\* all_queries.append('')
EmptyLine ==
    [text |-> <<>>, meta_id |-> 0, entry_id |-> 0, meta_key |-> <<>>,
     meta_value |-> <<>>, date_created |-> <<>>]

\* the keyword arguments the loop passes; the parameters it does not pass take
\* their defaults: party=False, t_shirt=False, t_shirt_size=None
BatchArguments(entry) ==
    [entry_id |-> entry.entry_id, meta_id_start |-> entry.meta_id_start,
     first_name |-> entry.first_name, last_name |-> entry.last_name,
     email |-> entry.email, phone |-> entry.phone, grade |-> entry.grade,
     dojo_name |-> entry.dojo_name, birth_date |-> entry.birth_date,
     gender |-> entry.gender,
     stripe_transaction_id |-> entry.stripe_transaction_id,
     stripe_amount |-> entry.stripe_amount,
     party |-> FALSE, t_shirt |-> FALSE, t_shirt_size |-> None,
     date_created |-> entry.date_created,
     currency |-> IF entry.currency.some THEN entry.currency.v ELSE DefaultCurrency]

\* the for loop from entry i on; nows[i] is the clock during entry i's call
RECURSIVE BatchLoop(_, _, _, _)
RECURSIVE BatchStep(_, _, _, _, _)
\* the body of the loop for entry i, given queries = generate_entry_inserts(...)
BatchStep(entries, nows, i, all_queries, queries) ==
    IF ~queries.ok THEN Raise(queries.err)
    ELSE BatchLoop(entries, nows, i + 1, (all_queries \o queries.val) \o <<EmptyLine>>)

BatchLoop(entries, nows, i, all_queries) ==
    IF i > Len(entries) THEN Ok(all_queries)
    ELSE BatchStep(entries, nows, i, all_queries,
                   generate_entry_inserts(BatchArguments(entries[i]), nows[i]))

generate_multiple_entries(entries, nows) == BatchLoop(entries, nows, 1, <<>>)

-----------------------------------------------------------------------------
(* The calls.  A behaviour is one call of one of the eight operations: Init *)
(* draws the operation and its arguments, the operation's action runs it.  *)

\* longest text drawn from the alphabet
MaxLen == 3

\* longest batch
MaxEntries == 2

Alphabet == {"\\", "'", "\"", "a", "E_ACUTE", "EURO"}

TextsUpTo(n) == UNION {[1..k -> Alphabet] : k \in 0..n}

Texts ==
    TextsUpTo(MaxLen)
    \cup {<<"O", "'", "B", "r", "i", "e", "n", "\\">>, <<"EURO", " ", "2", "0">>, <<"EMOJI">>, <<"\"", ";", "s", ":", "1", ":", "\"">>, <<"F", "E_CIRC", "t", "e", " ", "F", "i", "n", "a", "l", "e", " ", "/", " ", "F", "i", "n", "a", "l", " ", "P", "a", "r", "t", "y">>}

NameTexts == {<<>>, <<"X", "a", "n", "d", "e", "r">>, <<"Z", "o", "E_ACUTE">>, <<"O", "'", "B", "r", "i", "e", "n", "\\">>, <<"x", "\"", ";">>}

AmountTexts ==
    {<<"3", "5", "0", ".", "0", "0">>, <<"0">>, <<"1", "2", ".", "5">>, <<"-", "3", ".", "7">>, <<".", "0", "0", "0", "0", "1">>, <<" ", "4", "2", " ">>,
     <<>>, <<"a", "b", "c">>, <<"1", ",", "5">>, <<"i", "n", "f">>, <<"n", "a", "n">>}

Numbers ==
    {IntNum(0), IntNum(20), IntNum(-5)}
    \cup {FloatNum(ParseFloat(a).val) : a \in {t \in AmountTexts : ParseFloat(t).ok}}

CurrencySymbols == {<<"EURO">>, <<"$">>, <<"C", "H", "F">>}

Keys == {<<"n", "a", "m", "e", "-", "1">>, <<"k", "'", "x">>, <<"k", "\\">>}

Timestamps ==
    {None, Some(<<>>), Some(<<"2", "0", "2", "5", "-", "0", "6", "-", "1", "5", " ", "1", "0", ":", "3", "0", ":", "0", "0">>), Some(<<"2", "0", "2", "5", "-", "6", "-", "5", " ", "1", ":", "2", ":", "3">>),
     Some(<<"1", "5", "/", "0", "6", "/", "2", "0", "2", "5">>), Some(<<"2", "0", "2", "5", "-", "0", "2", "-", "3", "0", " ", "1", "0", ":", "0", "0", ":", "0", "0">>)}

\* what datetime.now() may return
Clock ==
    {[Y |-> 2026, m |-> 1, d |-> 2, H |-> 3, M |-> 4, S |-> 5],
     [Y |-> 2025, m |-> 12, d |-> 31, H |-> 23, M |-> 59, S |-> 59]}

\* the personal fields of an entry
Persons ==
    {[first_name |-> <<"X", "a", "n", "d", "e", "r">>, last_name |-> <<"B", "e", "e", "m", "e", "r">>, email |-> <<"x", "@", "h", ".", "c", "o", "m">>,
      phone |-> <<"+", "3", "1", " ", "6">>, grade |-> <<"6", " ", "D", "a", "n">>, dojo_name |-> <<"M", "i", "k", "o", " ", "D", "o", "j", "o">>,
      birth_date |-> <<"0", "2", "/", "0", "3", "/", "1", "9", "7", "3">>, stripe_transaction_id |-> <<"p", "i", "_", "3", "R">>],
     [first_name |-> <<"Z", "o", "E_ACUTE">>, last_name |-> <<"O", "'", "B", "r", "i", "e", "n", "\\">>, email |-> <<>>,
      phone |-> <<>>, grade |-> <<>>, dojo_name |-> <<>>,
      birth_date |-> <<>>, stripe_transaction_id |-> <<>>]}

Genders == {<<"M">>, <<"F">>, <<"X">>, <<>>}

Sizes == {None, Some(<<>>), Some(<<"L">>)}

StartIds == {9, 6031}

Entry(p, entry_id, meta_id_start, gender, stripe_amount, party, t_shirt, t_shirt_size, date_created, currency) ==
    [entry_id |-> entry_id, meta_id_start |-> meta_id_start,
     first_name |-> p.first_name, last_name |-> p.last_name, email |-> p.email,
     phone |-> p.phone, grade |-> p.grade, dojo_name |-> p.dojo_name,
     birth_date |-> p.birth_date, gender |-> gender,
     stripe_transaction_id |-> p.stripe_transaction_id, stripe_amount |-> stripe_amount,
     party |-> party, t_shirt |-> t_shirt, t_shirt_size |-> t_shirt_size,
     date_created |-> date_created, currency |-> currency]

Entries ==
    {Entry(p, 668, start, gender, amount, party, t_shirt, size, created, DefaultCurrency) :
        p \in Persons, start \in StartIds, gender \in Genders, amount \in AmountTexts,
        party \in BOOLEAN, t_shirt \in BOOLEAN, size \in Sizes, created \in Timestamps}

Xander == CHOOSE p \in Persons : p.first_name = <<"X", "a", "n", "d", "e", "r">>

\* the dicts a batch is drawn from
Dicts ==
    {Entry(Xander, 668, 1, <<"M">>, <<"3", "5", "0", ".", "0", "0">>, FALSE, FALSE, None,
           Some(<<"2", "0", "2", "5", "-", "0", "6", "-", "1", "5", " ", "1", "0", ":", "3", "0", ":", "0", "0">>), None),
     Entry(Xander, 669, 6031, <<"F">>, <<"3", "5", "0", ".", "0", "0">>, TRUE, TRUE, Some(<<"L">>),
           Some(<<"2", "0", "2", "5", "-", "0", "6", "-", "1", "5", " ", "1", "0", ":", "3", "0", ":", "0", "0">>), Some(<<"U", "S", "D">>)),
     Entry(Xander, 670, 1, <<"X">>, <<"1", "2", ".", "5">>, TRUE, FALSE, None, None, None),
     Entry(Xander, 671, 20, <<"M">>, <<"0">>, FALSE, TRUE, Some(<<"L">>),
           Some(<<"2", "0", "2", "5", "-", "6", "-", "5", " ", "1", ":", "2", ":", "3">>), None),
     Entry(Xander, 672, 6031, <<"M">>, <<"a", "b", "c">>, FALSE, FALSE, None,
           Some(<<"2", "0", "2", "5", "-", "0", "6", "-", "1", "5", " ", "1", "0", ":", "3", "0", ":", "0", "0">>), None),
     Entry(Xander, 673, 1, <<"M">>, <<"3", "5", "0", ".", "0", "0">>, FALSE, FALSE, None,
           Some(<<"1", "5", "/", "0", "6", "/", "2", "0", "2", "5">>), None)}

Batches == UNION {[1..k -> Dicts] : k \in 0..MaxEntries}

\* the operation called and its arguments
Init ==
    /\ pc = "call"
    /\ clock = <<>>
    /\ result = Pending
    /\ \/ op = "php_serialize_string" /\ args \in [value : Texts]
       \/ op = "php_serialize_name"
          /\ args \in [first_name : NameTexts, last_name : NameTexts]
       \/ op = "php_serialize_calculation"
          /\ args \in [amount : Numbers, currency_symbol : CurrencySymbols]
       \/ op = "php_serialize_stripe"
          /\ args \in [transaction_id : NameTexts, amount : AmountTexts,
                       currency : {DefaultCurrency, <<"EURO">>},
                       mode : {DefaultMode, <<"t", "e", "s", "t">>},
                       product_name : {DefaultProductName},
                       payment_type : {DefaultPaymentType}, status : {DefaultStatus}]
       \/ op = "escape_sql_string" /\ args \in [value : Texts]
       \/ op = "generate_insert_query"
          /\ args \in [meta_id : {6031}, entry_id : {668}, meta_key : Keys,
                       meta_value : Texts,
                       date_created : {None, Some(<<>>), Some(<<"2", "0", "2", "5", "-", "0", "6", "-", "1", "5", " ", "1", "0", ":", "3", "0", ":", "0", "0">>)}]
       \/ op = "generate_entry_inserts" /\ args \in [entry : Entries]
       \/ op = "generate_multiple_entries" /\ args \in [entries : Batches]

\* the call returns or raises; the clock readings it made are kept in clock
Return(r, readings) ==
    /\ result' = r
    /\ clock' = readings
    /\ pc' = "return"
    /\ UNCHANGED <<op, args>>

CallSerializeString ==
    /\ pc = "call" /\ op = "php_serialize_string"
    /\ Return(Ok(php_serialize_string(args.value)), <<>>)

CallSerializeName ==
    /\ pc = "call" /\ op = "php_serialize_name"
    /\ Return(Ok(php_serialize_name(args.first_name, args.last_name)), <<>>)

CallSerializeCalculation ==
    /\ pc = "call" /\ op = "php_serialize_calculation"
    /\ Return(php_serialize_calculation(args.amount, args.currency_symbol), <<>>)

CallSerializeStripe ==
    /\ pc = "call" /\ op = "php_serialize_stripe"
    /\ Return(Ok(php_serialize_stripe(args.transaction_id, args.amount, args.currency,
                                      args.mode, args.product_name, args.payment_type,
                                      args.status)), <<>>)

CallEscapeSqlString ==
    /\ pc = "call" /\ op = "escape_sql_string"
    /\ Return(Ok(escape_sql_string(args.value)), <<>>)

CallGenerateInsertQuery ==
    /\ pc = "call" /\ op = "generate_insert_query"
    /\ \E now \in Clock :
          Return(Ok(generate_insert_query(args.meta_id, args.entry_id, args.meta_key,
                                          args.meta_value, args.date_created, now)),
                 IF args.date_created.some THEN <<>> ELSE <<now>>)

CallGenerateEntryInserts ==
    /\ pc = "call" /\ op = "generate_entry_inserts"
    /\ \E now \in Clock :
          Return(generate_entry_inserts(args.entry, now),
                 IF Truthy(args.entry.date_created) THEN <<>> ELSE <<now>>)

CallGenerateMultipleEntries ==
    /\ pc = "call" /\ op = "generate_multiple_entries"
    /\ \E nows \in [1..Len(args.entries) -> Clock] :
          Return(generate_multiple_entries(args.entries, nows), nows)

Next ==
    \/ CallSerializeString
    \/ CallSerializeName
    \/ CallSerializeCalculation
    \/ CallSerializeStripe
    \/ CallEscapeSqlString
    \/ CallGenerateInsertQuery
    \/ CallGenerateEntryInserts
    \/ CallGenerateMultipleEntries

Spec == Init /\ [][Next]_vars

Returned(name) == pc = "return" /\ op = name

-----------------------------------------------------------------------------
(* A reader of the serialized format, as PHP's unserialize reads it: a     *)
(* string is s:N:" followed by the characters that make up N bytes and a   *)
(* closing quote; an aggregate is a:N:{ followed by items, each ended by   *)
(* a semicolon, and a closing brace.                                       *)

\* the number of digits of s from position i on
RECURSIVE DigitRun(_, _)
DigitRun(s, i) == IF IsDigit(At(s, i)) THEN 1 + DigitRun(s, i + 1) ELSE 0

\* how many characters of s from position i on make up exactly n bytes, added to
\* k; -1 if none do
RECURSIVE CharsForBytes(_, _, _, _)
CharsForBytes(s, i, n, k) ==
    IF n = 0 THEN k
    ELSE IF n < 0 \/ i > Len(s) THEN -1
    ELSE CharsForBytes(s, i + 1, n - Utf8Width(s[i]), k + 1)

\* the position of the first c of s from position i on, Len(s) + 1 if there is none
RECURSIVE Find(_, _, _)
Find(s, i, c) == IF i > Len(s) \/ s[i] = c THEN i ELSE Find(s, i + 1, c)

NoItem == [ok |-> FALSE, tag |-> "", n |-> 0, val |-> <<>>, next |-> 0]

\* the string whose declared length has w digits and whose content has k characters
StringItem(s, i, w, k) ==
    IF /\ w > 0 /\ At(s, i + 2 + w) = ":" /\ At(s, i + 3 + w) = "\""
       /\ k >= 0 /\ At(s, i + 4 + w + k) = "\""
    THEN [ok |-> TRUE, tag |-> "s", n |-> DigitsVal(SubSeq(s, i + 2, i + 1 + w)),
          val |-> SubSeq(s, i + 4 + w, i + 3 + w + k), next |-> i + 5 + w + k]
    ELSE NoItem

StringOfWidth(s, i, w) ==
    StringItem(s, i, w, CharsForBytes(s, i + 4 + w, DigitsVal(SubSeq(s, i + 2, i + 1 + w)), 0))

\* the s:N:"..." at position i of s: its declared length n, its content val and
\* the position after its closing quote
ReadString(s, i) ==
    IF At(s, i) = "s" /\ At(s, i + 1) = ":" THEN StringOfWidth(s, i, DigitRun(s, i + 2))
    ELSE NoItem

\* the d:... at position i of s, up to the semicolon that ends it
ReadDecimal(s, i, semi) ==
    IF At(s, i) = "d" /\ At(s, i + 1) = ":" /\ semi <= Len(s)
    THEN [ok |-> TRUE, tag |-> "d", n |-> 0, val |-> SubSeq(s, i + 2, semi - 1), next |-> semi]
    ELSE NoItem

ReadItem(s, i) == IF At(s, i) = "s" THEN ReadString(s, i) ELSE ReadDecimal(s, i, Find(s, i, ";"))

NoArray == [ok |-> FALSE, count |-> 0, items |-> <<>>]

\* the items from position i on, up to the closing brace, which must end s
RECURSIVE ReadItems(_, _, _, _)
RECURSIVE ReadNext(_, _, _, _)
ReadNext(s, count, item, items) ==
    IF item.ok /\ At(s, item.next) = ";" THEN ReadItems(s, item.next + 1, count, Append(items, item))
    ELSE NoArray

ReadItems(s, i, count, items) ==
    IF At(s, i) = "}"
    THEN (IF i = Len(s) THEN [ok |-> TRUE, count |-> count, items |-> items] ELSE NoArray)
    ELSE ReadNext(s, count, ReadItem(s, i), items)

ArrayOfWidth(s, w) ==
    IF w > 0 /\ At(s, 3 + w) = ":" /\ At(s, 4 + w) = "{"
    THEN ReadItems(s, 5 + w, DigitsVal(SubSeq(s, 3, 2 + w)), <<>>)
    ELSE NoArray

\* the a:N:{...} that s is: its declared count and its items
ReadArray(s) ==
    IF At(s, 1) = "a" /\ At(s, 2) = ":" THEN ArrayOfWidth(s, DigitRun(s, 3)) ELSE NoArray

\* the contents of the items
Vals(items) == [i \in 1..Len(items) |-> items[i].val]

\* the items at the odd positions: the keys
KeysOf(items) == [i \in 1..(Len(items) \div 2) |-> items[2 * i - 1].val]

\* every string among the items declares the byte count of its content
PrefixesAreByteCounts(items) ==
    \A i \in 1..Len(items) : items[i].tag = "s" => items[i].n = Utf8Len(items[i].val)

\* the escaped form of a text: each backslash doubled, each single quote preceded
\* by a backslash, every other character unchanged
EscapedChar(c) ==
    IF c = "\\" THEN <<"\\", "\\">> ELSE IF c = "'" THEN <<"\\", "'">> ELSE <<c>>

RECURSIVE EscapedForm(_)
EscapedForm(v) == IF v = <<>> THEN <<>> ELSE EscapedChar(Head(v)) \o EscapedForm(Tail(v))

-----------------------------------------------------------------------------
(* Claims *)

FixedKeyOrder ==
    << <<"h", "i", "d", "d", "e", "n", "-", "1">>, <<"h", "i", "d", "d", "e", "n", "-", "2">>, <<"c", "a", "l", "c", "u", "l", "a", "t", "i", "o", "n", "-", "1">>, <<"c", "a", "l", "c", "u", "l", "a", "t", "i", "o", "n", "-", "2">>, <<"n", "a", "m", "e", "-", "1">>,
       <<"e", "m", "a", "i", "l", "-", "1">>, <<"p", "h", "o", "n", "e", "-", "1">>, <<"s", "e", "l", "e", "c", "t", "-", "1">>, <<"t", "e", "x", "t", "-", "3">>, <<"d", "a", "t", "e", "-", "1">>, <<"s", "e", "l", "e", "c", "t", "-", "2">>,
       <<"s", "e", "l", "e", "c", "t", "-", "3">>, <<"s", "e", "l", "e", "c", "t", "-", "4">>, <<"s", "e", "l", "e", "c", "t", "-", "5">>, <<"c", "h", "e", "c", "k", "b", "o", "x", "-", "2">>, <<"s", "t", "r", "i", "p", "e", "-", "o", "c", "s", "-", "1">> >>

\* a size was supplied: the argument is a non-empty text (None and '' supply none)
SizeSupplied(e) == e.t_shirt_size.some /\ e.t_shirt_size.v # <<>>

RemovedKeys(e) ==
    (IF e.t_shirt THEN {} ELSE {<<"s", "e", "l", "e", "c", "t", "-", "2">>, <<"s", "e", "l", "e", "c", "t", "-", "4">>})
    \cup (IF e.t_shirt /\ SizeSupplied(e) THEN {} ELSE {<<"s", "e", "l", "e", "c", "t", "-", "3">>})
    \cup (IF e.party \/ e.t_shirt THEN {} ELSE {<<"c", "h", "e", "c", "k", "b", "o", "x", "-", "2">>})

ExpectedKeys(e) ==
    LET Kept(k) == k \notin RemovedKeys(e) IN SelectSeq(FixedKeyOrder, Kept)

EmittedKeys(queries) == [k \in 1..Len(queries) |-> queries[k].meta_key]

EntryReturned == Returned("generate_entry_inserts") /\ result.ok

\* C1: the keys of the statements generate_entry_inserts returns are the fixed order
\* of sixteen keys without select-2 and select-4 unless t-shirt is opted in, without
\* select-3 unless t-shirt is opted in and a size was supplied, and without
\* checkbox-2 unless party or t-shirt is true; no key occurs twice; sixteen rows
\* with t-shirt and a size, twelve rows with neither t-shirt nor party.
C1_KeysInFixedOrder ==
    EntryReturned =>
        /\ EmittedKeys(result.val) = ExpectedKeys(args.entry)
        /\ \A j, k \in 1..Len(result.val) :
              j # k => result.val[j].meta_key # result.val[k].meta_key
        /\ (args.entry.t_shirt /\ SizeSupplied(args.entry)) => Len(result.val) = 16
        /\ (~args.entry.t_shirt /\ ~args.entry.party) => Len(result.val) = 12

\* an entry without t-shirt and party, though with a size: twelve rows
C1_Witness ==
    /\ EntryReturned
    /\ ~args.entry.t_shirt /\ ~args.entry.party /\ SizeSupplied(args.entry)
    /\ Len(result.val) = 12
    /\ result.val[11].meta_key = <<"s", "e", "l", "e", "c", "t", "-", "5">>

\* C2: the k-th statement generate_entry_inserts returns carries the row identifier
\* meta_id_start + k - 1, in its text as well: an excluded field consumes no
\* identifier.
C2_RowIdsAreDense ==
    EntryReturned =>
        \A k \in 1..Len(result.val) :
            /\ result.val[k].meta_id = args.entry.meta_id_start + k - 1
            /\ result.val[k].text =
                  QueryText(args.entry.meta_id_start + k - 1, args.entry.entry_id,
                            result.val[k].meta_key, result.val[k].meta_value,
                            result.val[k].date_created)

\* party without t-shirt: select-2, select-3, select-4 are skipped, and the last of
\* the thirteen rows has the thirteenth identifier
C2_Witness ==
    /\ EntryReturned
    /\ args.entry.party /\ ~args.entry.t_shirt
    /\ Len(result.val) = 13
    /\ result.val[13].meta_key = <<"s", "t", "r", "i", "p", "e", "-", "o", "c", "s", "-", "1">>
    /\ result.val[13].meta_id = args.entry.meta_id_start + 12

\* C3: php_serialize_string(s) is s:n:"s" with n the number of UTF-8 bytes of s, and
\* every string inside the name, calculation and payment encodings declares the
\* UTF-8 byte count of its content: read by declared lengths, each encoding yields
\* its fixed keys and the texts it was given.
C3_LengthPrefixIsByteCount ==
    /\ Returned("php_serialize_string") =>
          /\ ReadString(result.val, 1).ok
          /\ ReadString(result.val, 1).val = args.value
          /\ ReadString(result.val, 1).n = Utf8Len(args.value)
          /\ ReadString(result.val, 1).next = Len(result.val) + 1
          /\ StartsWith(result.val, <<"s", ":">> \o NatStr(Utf8Len(args.value)) \o <<":", "\"">>)
    /\ Returned("php_serialize_name") =>
          /\ ReadArray(result.val).ok
          /\ PrefixesAreByteCounts(ReadArray(result.val).items)
          /\ Vals(ReadArray(result.val).items)
                = << <<"f", "i", "r", "s", "t", "-", "n", "a", "m", "e">>, args.first_name, <<"l", "a", "s", "t", "-", "n", "a", "m", "e">>, args.last_name >>
    /\ (Returned("php_serialize_calculation") /\ result.ok) =>
          /\ ReadArray(result.val).ok
          /\ PrefixesAreByteCounts(ReadArray(result.val).items)
          /\ Len(ReadArray(result.val).items) = 4
          /\ ReadArray(result.val).items[4].val
                = (args.currency_symbol \o <<" ">>) \o IntStr(NumInt(args.amount).val)
    /\ Returned("php_serialize_stripe") =>
          /\ ReadArray(result.val).ok
          /\ PrefixesAreByteCounts(ReadArray(result.val).items)
          /\ Len(ReadArray(result.val).items) = 18
          /\ ReadArray(result.val).items[8].val = args.amount
          /\ ReadArray(result.val).items[14].val = args.transaction_id

\* the calculation of 20 with the euro sign: "EURO 20" has 4 characters and is
\* prefixed 6
C3_Witness ==
    /\ Returned("php_serialize_calculation") /\ result.ok
    /\ args.amount = IntNum(20) /\ args.currency_symbol = <<"EURO">>
    /\ ReadArray(result.val).ok
    /\ ReadArray(result.val).items[4].n = 6
    /\ Len(ReadArray(result.val).items[4].val) = 4

\* C4: escape_sql_string(v) is v with each backslash doubled, each single quote
\* preceded by a backslash and every other character unchanged; the backslashes put
\* before quotes are not doubled.
C4_EscapeIsCharacterwise ==
    Returned("escape_sql_string") => result.val = EscapedForm(args.value)

\* O'Brien\ becomes O\'Brien\\
C4_Witness ==
    /\ Returned("escape_sql_string")
    /\ args.value = <<"O", "'", "B", "r", "i", "e", "n", "\\">>
    /\ result.val = <<"O", "\\", "'", "B", "r", "i", "e", "n", "\\", "\\">>

\* the statements among the elements of a batch's output
IsSeparator(q) == q.text = <<>>

StatementsOf(all_queries) == SelectSeq(all_queries, LAMBDA q : ~IsSeparator(q))

SeparatorsOf(all_queries) == SelectSeq(all_queries, IsSeparator)

\* the arguments of generate_entry_inserts that a record's fields are: all of them
RecordArguments(entry) ==
    [entry EXCEPT !.currency = IF entry.currency.some THEN entry.currency.v ELSE DefaultCurrency]

\* the statements generate_entry_inserts returns for each record in turn
RECURSIVE PerRecordStatements(_, _, _)
PerRecordStatements(entries, nows, i) ==
    IF i > Len(entries) THEN <<>>
    ELSE generate_entry_inserts(RecordArguments(entries[i]), nows[i]).val
         \o PerRecordStatements(entries, nows, i + 1)

BatchReturned == Returned("generate_multiple_entries") /\ result.ok

\* C5: the statements of generate_multiple_entries' output are the statements
\* generate_entry_inserts produces for the first record, then for the second, and so
\* on, each record taken with all its fields (party, t-shirt opt-in and size
\* included) and each starting at its own meta_id_start.
C5_BatchIsConcatenation ==
    BatchReturned =>
        StatementsOf(result.val) = PerRecordStatements(args.entries, clock, 1)

\* C6 as stated: generate_entry_inserts fails if and only if the amount string does
\* not parse as a number, whatever the other fields hold.
WellFormedAmounts == {<<"3", "5", "0", ".", "0", "0">>, <<"0">>, <<"1", "2", ".", "5">>, <<"-", "3", ".", "7">>, <<".", "0", "0", "0", "0", "1">>, <<" ", "4", "2", " ">>}

AcceptedTimestamps ==
    {None, Some(<<>>), Some(<<"2", "0", "2", "5", "-", "0", "6", "-", "1", "5", " ", "1", "0", ":", "3", "0", ":", "0", "0">>), Some(<<"2", "0", "2", "5", "-", "6", "-", "5", " ", "1", ":", "2", ":", "3">>)}

CreatedText == IF args.date_created.some THEN args.date_created.v ELSE FormatTimestamp(clock[1])

\* C7: generate_insert_query places the escaped form of the key between
\* the quotes of the meta_key column and the escaped form of the value between the
\* quotes of the meta_value column.
C7_KeyAndValueEscaped ==
    Returned("generate_insert_query") =>
        result.val.text = QueryText(args.meta_id, args.entry_id, EscapedForm(args.meta_key),
                                    EscapedForm(args.meta_value), CreatedText)

StripeKeys ==
    << <<"m", "o", "d", "e">>, <<"p", "r", "o", "d", "u", "c", "t", "_", "n", "a", "m", "e">>, <<"p", "a", "y", "m", "e", "n", "t", "_", "t", "y", "p", "e">>, <<"a", "m", "o", "u", "n", "t">>, <<"q", "u", "a", "n", "t", "i", "t", "y">>,
       <<"c", "u", "r", "r", "e", "n", "c", "y">>, <<"t", "r", "a", "n", "s", "a", "c", "t", "i", "o", "n", "_", "i", "d">>, <<"t", "r", "a", "n", "s", "a", "c", "t", "i", "o", "n", "_", "l", "i", "n", "k">>, <<"s", "t", "a", "t", "u", "s">> >>

\* the header's count is the number of pairs, and the keys are these, in order,
\* each declaring its byte length
HasKeys(encoded, count, keys) ==
    /\ ReadArray(encoded).ok
    /\ ReadArray(encoded).count = count
    /\ Len(ReadArray(encoded).items) = 2 * count
    /\ KeysOf(ReadArray(encoded).items) = keys
    /\ \A i \in 1..count :
          /\ ReadArray(encoded).items[2 * i - 1].tag = "s"
          /\ ReadArray(encoded).items[2 * i - 1].n = Utf8Len(keys[i])

\* C8: in every aggregate the header's count is the number of key/value pairs and
\* each key declares its byte length: the name has the 2 keys first-name, last-name;
\* the calculation the 2 keys result, formatting_result; the payment the 9 keys
\* mode, product_name, payment_type, amount, quantity, currency, transaction_id,
\* transaction_link, status in this order, with quantity "1" and transaction_link
\* the dashboard URL followed by the transaction id.
C8_AggregateHeaders ==
    /\ Returned("php_serialize_name") =>
          HasKeys(result.val, 2, << <<"f", "i", "r", "s", "t", "-", "n", "a", "m", "e">>, <<"l", "a", "s", "t", "-", "n", "a", "m", "e">> >>)
    /\ (Returned("php_serialize_calculation") /\ result.ok) =>
          HasKeys(result.val, 2, << <<"r", "e", "s", "u", "l", "t">>, <<"f", "o", "r", "m", "a", "t", "t", "i", "n", "g", "_", "r", "e", "s", "u", "l", "t">> >>)
    /\ Returned("php_serialize_stripe") =>
          /\ HasKeys(result.val, 9, StripeKeys)
          /\ ReadArray(result.val).items[10].val = <<"1">>
          /\ ReadArray(result.val).items[16].val
                = <<"h", "t", "t", "p", "s", ":", "/", "/", "d", "a", "s", "h", "b", "o", "a", "r", "d", ".", "s", "t", "r", "i", "p", "e", ".", "c", "o", "m", "/", "p", "a", "y", "m", "e", "n", "t", "s", "/">> \o args.transaction_id

\* a payment record whose transaction id holds a quote and a semicolon
C8_Witness ==
    /\ Returned("php_serialize_stripe")
    /\ args.transaction_id = <<"x", "\"", ";">>
    /\ ReadArray(result.val).count = 9
    /\ Len(ReadArray(result.val).items) = 18

CheckboxRows(queries) == {k \in 1..Len(queries) : queries[k].meta_key = <<"c", "h", "e", "c", "k", "b", "o", "x", "-", "2">>}

\* C9: the checkbox-2 row's value is "Fete Finale / Final Party" (with E_CIRC) when
\* only party is true, "T-Shirt" when only t-shirt is opted in, and the two joined by
\* a comma and a blank, party first, when both are; it is never empty.
C9_CheckboxValue ==
    EntryReturned =>
        \A k \in CheckboxRows(result.val) :
            /\ result.val[k].meta_value # <<>>
            /\ result.val[k].meta_value =
                  IF args.entry.party /\ args.entry.t_shirt
                  THEN <<"F", "E_CIRC", "t", "e", " ", "F", "i", "n", "a", "l", "e", " ", "/", " ", "F", "i", "n", "a", "l", " ", "P", "a", "r", "t", "y", ",", " ", "T", "-", "S", "h", "i", "r", "t">>
                  ELSE IF args.entry.party THEN <<"F", "E_CIRC", "t", "e", " ", "F", "i", "n", "a", "l", "e", " ", "/", " ", "F", "i", "n", "a", "l", " ", "P", "a", "r", "t", "y">>
                  ELSE <<"T", "-", "S", "h", "i", "r", "t">>

\* party only: the row is there and holds exactly the party's label
C9_Witness ==
    /\ EntryReturned
    /\ args.entry.party /\ ~args.entry.t_shirt
    /\ CheckboxRows(result.val) = {12}
    /\ result.val[12].meta_value = <<"F", "E_CIRC", "t", "e", " ", "F", "i", "n", "a", "l", "e", " ", "/", " ", "F", "i", "n", "a", "l", " ", "P", "a", "r", "t", "y">>

\* C10: for a batch of n >= 1 entries the output holds exactly n - 1 separators and
\* does not end with one.
C10_SeparatorsOnlyBetween ==
    (BatchReturned /\ Len(args.entries) >= 1) =>
        /\ Len(SeparatorsOf(result.val)) = Len(args.entries) - 1
        /\ ~IsSeparator(result.val[Len(result.val)])

=============================================================================
